---- MODULE Spec2Model ----
(***************************************************************************)
(* A model of scripts/untar.py: tar_csv_to_parquet walks the members of a  *)
(* tar archive and converts every CSV member to a Parquet file, either by  *)
(* streaming each member out of the archive (extract_to_temp=False) or by  *)
(* extracting the archive to a temporary directory and scanning it         *)
(* (extract_to_temp=True).                                                 *)
(*                                                                         *)
(* Names are sequences of characters, so that str.endswith and             *)
(* pathlib.Path.stem are computed as Python computes them.  The calls into *)
(* tarfile and pyarrow are modelled by what they do to the program's       *)
(* state: a call returns or raises, pq.write_table creates the file under  *)
(* its final path, writes the row groups one by one and closes it.         *)
(***************************************************************************)
EXTENDS Integers, Sequences, FiniteSets, TLC

\* ------------------------------------------------------------- bounds

\* the longest archive explored
MaxMembers == 3
\* the most text lines (header included) a CSV member holds
MaxLines == 4
\* the largest batch_size explored (the rows of one row group)
MaxBatch == 2

\* ------------------------------------------------------------- names

N_a_csv   == <<"a", ".", "c", "s", "v">>
N_d_a_csv == <<"d", "/", "a", ".", "c", "s", "v">>
N_b_csv   == <<"b", ".", "c", "s", "v">>
N_a_CSV   == <<"a", ".", "C", "S", "V">>
N_r_txt   == <<"r", ".", "t", "x", "t">>
N_x_csv   == <<"x", ".", "c", "s", "v">>

\* the suffix tested at untar.py:61 and globbed at untar.py:44
DotCsv == <<".", "c", "s", "v">>

\* The members an archive is drawn from: regular files, two of them sharing
\* the stem "a", and a directory whose name ends like a data file's.
MemberPool ==
    { [name |-> N_a_csv,   kind |-> "file"],
      [name |-> N_d_a_csv, kind |-> "file"],
      [name |-> N_b_csv,   kind |-> "file"],
      [name |-> N_a_CSV,   kind |-> "file"],
      [name |-> N_r_txt,   kind |-> "file"],
      [name |-> N_x_csv,   kind |-> "dir"] }

\* An archive: up to MaxMembers distinct members, in storage order.
Archives ==
    UNION { { s \in [1..n -> MemberPool] :
                \A i, j \in 1..n : i # j => s[i] # s[j] } : n \in 1..MaxMembers }

Max(S) == CHOOSE x \in S : \A y \in S : y <= x

\* str.rfind, 1-based; 0 when c does not occur
LastIndexOf(s, c) ==
    LET P == { i \in 1..Len(s) : s[i] = c }
    IN  IF P = {} THEN 0 ELSE Max(P)

\* str.endswith
EndsWith(s, suffix) ==
    /\ Len(s) >= Len(suffix)
    /\ SubSeq(s, Len(s) - Len(suffix) + 1, Len(s)) = suffix

\* pathlib.PurePath.name: the final path component
BaseName(s) == SubSeq(s, LastIndexOf(s, "/") + 1, Len(s))

\* Stem with a slip: the suffix is cut from the whole path, so the directory
\* part is kept
StemKeepsDir(s) ==
    LET p == LastIndexOf(s, ".")
    IN  IF p > 1 /\ p < Len(s) THEN SubSeq(s, 1, p - 1) ELSE s

\* pathlib.PurePath.stem: the final component without its last suffix
Stem(s) ==
    LET n == BaseName(s)
        p == LastIndexOf(n, ".")
    IN  IF p > 1 /\ p < Len(n) THEN SubSeq(n, 1, p - 1) ELSE n

\* os.path.join(output_dir, f"{base_name}.parquet"), relative to output_dir
ParquetPath(name) == Stem(name) \o <<".parquet">>

\* the number of directories above a name
Depth(name) == Cardinality({ i \in 1..Len(name) : name[i] = "/" })

\* TarInfo.isfile()
IsFile(m) == m.kind = "file"

\* IsEligible with a slip: the suffix test is missing, any regular file passes
IsEligibleAnyName(m) == IsFile(m)

\* the filter of the streaming loop
IsEligible(m) == EndsWith(m.name, DotCsv) /\ IsFile(m)

\* Path.rglob('*.csv'): every entry under the directory, of any type, whose
\* final component matches
GlobMatches(m) == EndsWith(BaseName(m.name), DotCsv)

\* CatchesConvertError with a slip: no handler around the conversion
CatchesNothing(md) == FALSE

\* Whether the call of the conversion function sits in a try/except: it
\* does in the streaming loop only.
CatchesConvertError(md) == md = "stream"

\* GroupSize with a slip: every row group is taken to be full
GroupSizeFull(remaining, size) == size

\* the rows of the next row group pq.write_table writes
GroupSize(remaining, size) == IF remaining < size THEN remaining ELSE size

\* the rows of the table csv.read_csv builds: the first line is the header
TableRows(lines) == lines - 1

\* -------------------------------------------------------------- state

VARIABLES
    archive,      \* the members of the tar file, in storage order
    mode,         \* "stream" (extract_to_temp=False) or "temp"
    batch_size,   \* the batch_size argument
    pc,           \* where tar_csv_to_parquet stands
    idx,          \* the streaming loop's position in tar.getmembers()
    todo,         \* extract mode: the matching entries rglob has yet to yield
    cur,          \* the member being converted (0: none)
    csv_file,     \* the member whose stream the local csv_file refers to
    openStreams,  \* the members whose stream is open
    table,        \* the rows of the table read (-1: none)
    written,      \* the rows pq.write_table has written so far
    fs,           \* the output directory: path -> file
    committed,    \* history: path -> the file last written to completion
    lines,        \* the text lines csv.read_csv consumed (0: none)
    started,      \* history: the members a conversion was started for
    log,          \* the outcomes printed, in order
    uncaught      \* the step whose exception left tar_csv_to_parquet

vars == << archive, mode, batch_size, pc, idx, todo, cur, csv_file,
           openStreams, table, written, fs, committed, lines, started,
           log, uncaught >>

Paths == { ParquetPath(m.name) : m \in MemberPool }

\* A file of the output directory: the member it was written for, the text
\* lines read from that member, the row groups written, and whether the
\* footer was written.
NoFile == [owner |-> 0, src |-> 0, groups |-> << >>, complete |-> FALSE]

Members == 1..Len(archive)

PathOf(i) == ParquetPath(archive[i].name)

Init ==
    /\ archive \in Archives
    /\ mode \in {"stream", "temp"}
    /\ batch_size \in 1..MaxBatch
    /\ pc = "start"
    /\ idx = 1
    /\ todo = {}
    /\ cur = 0
    /\ csv_file = 0
    /\ openStreams = {}
    /\ table = -1
    /\ written = 0
    /\ fs = [p \in Paths |-> NoFile]
    /\ committed = [p \in Paths |-> NoFile]
    /\ lines = 0
    /\ started = {}
    /\ log = << >>
    /\ uncaught = "none"

\* ------------------------------------------------- tar_csv_to_parquet

\* tarfile.open succeeds in the streaming branch
OpenArchive ==
    /\ pc = "start" /\ mode = "stream"
    /\ pc' = "loop"
    /\ UNCHANGED << archive, mode, batch_size, idx, todo, cur, csv_file,
                    openStreams, table, written, fs, committed, lines,
                    started, log, uncaught >>

\* tarfile.open and tar.extractall succeed; rglob will yield the matching
\* entries of the temporary directory
ExtractAll ==
    /\ pc = "start" /\ mode = "temp"
    /\ pc' = "scan"
    /\ todo' = { i \in Members : GlobMatches(archive[i]) }
    /\ UNCHANGED << archive, mode, batch_size, idx, cur, csv_file,
                    openStreams, table, written, fs, committed, lines,
                    started, log, uncaught >>

\* tarfile.open (or extractall) raises: the archive cannot be read
ArchiveFail ==
    /\ pc = "start"
    /\ pc' = "aborted"
    /\ uncaught' = "archive"
    /\ UNCHANGED << archive, mode, batch_size, idx, todo, cur, csv_file,
                    openStreams, table, written, fs, committed, lines,
                    started, log >>

\* the streaming loop passes over a member the filter rejects
SkipMember ==
    /\ pc = "loop" /\ idx <= Len(archive)
    /\ ~IsEligible(archive[idx])
    /\ idx' = idx + 1
    /\ UNCHANGED << archive, mode, batch_size, pc, todo, cur, csv_file,
                    openStreams, table, written, fs, committed, lines,
                    started, log, uncaught >>

\* csv_file = tar.extractfile(member) returns a stream (it returns None for
\* members that are neither regular files nor links, and the loop then moves
\* on); the local csv_file now refers to the new stream
OpenMember ==
    /\ pc = "loop" /\ idx <= Len(archive)
    /\ IsEligible(archive[idx])
    /\ IF archive[idx].kind \in {"file", "link"}
       THEN /\ pc' = "opened"
            /\ cur' = idx
            /\ csv_file' = idx
            /\ openStreams' = openStreams \cup {idx}
            /\ idx' = idx
       ELSE /\ idx' = idx + 1
            /\ UNCHANGED << pc, cur, csv_file, openStreams >>
    /\ UNCHANGED << archive, mode, batch_size, todo, table, written, fs,
                    committed, lines, started, log, uncaught >>

\* tar.extractfile(member) raises: the call is outside the try block
OpenMemberFail ==
    /\ pc = "loop" /\ idx <= Len(archive)
    /\ IsEligible(archive[idx])
    /\ pc' = "aborted"
    /\ uncaught' = "open"
    /\ UNCHANGED << archive, mode, batch_size, idx, todo, cur, csv_file,
                    openStreams, table, written, fs, committed, lines,
                    started, log >>

\* the streaming loop is exhausted: the function returns and its locals go
Return ==
    /\ pc = "loop" /\ idx > Len(archive)
    /\ pc' = "done"
    /\ csv_file' = 0
    /\ UNCHANGED << archive, mode, batch_size, idx, todo, cur, openStreams,
                    table, written, fs, committed, lines, started, log,
                    uncaught >>

\* rglob yields the next entry: those of the directory itself before those
\* of its subdirectories, in the order the file system lists them
NextFile ==
    /\ pc = "scan"
    /\ \E i \in todo :
         /\ \A j \in todo : Depth(archive[i].name) <= Depth(archive[j].name)
         /\ cur' = i
         /\ todo' = todo \ {i}
    /\ pc' = "opened"
    /\ UNCHANGED << archive, mode, batch_size, idx, csv_file, openStreams,
                    table, written, fs, committed, lines, started, log,
                    uncaught >>

\* rglob is exhausted: shutil.rmtree and return
Cleanup ==
    /\ pc = "scan" /\ todo = {}
    /\ pc' = "done"
    /\ UNCHANGED << archive, mode, batch_size, idx, todo, cur, csv_file,
                    openStreams, table, written, fs, committed, lines,
                    started, log, uncaught >>

\* ---------------------- convert_stream_to_parquet, convert_csv_to_parquet

\* the conversion of cur ended: the loop goes on
NextMember ==
    /\ pc' = IF mode = "stream" THEN "loop" ELSE "scan"
    /\ idx' = IF mode = "stream" THEN idx + 1 ELSE idx
    /\ cur' = 0
    /\ lines' = 0
    /\ table' = -1
    /\ written' = 0

\* an exception leaves the conversion function during `phase`
ConvertError(phase) ==
    IF CatchesConvertError(mode)
    THEN /\ log' = Append(log, [member |-> cur, status |-> "failure"])
         /\ NextMember
         /\ UNCHANGED uncaught
    ELSE /\ pc' = "aborted"
         /\ uncaught' = phase
         /\ UNCHANGED << log, idx, cur, lines, table, written >>

\* csv.read_csv reads the whole input into a table
ReadCsv ==
    /\ pc = "opened"
    /\ archive[cur].kind # "dir"
    /\ \E n \in 1..MaxLines :
         /\ lines' = n
         /\ table' = TableRows(n)
    /\ started' = started \cup {cur}
    /\ pc' = "write"
    /\ UNCHANGED << archive, mode, batch_size, idx, todo, cur, csv_file,
                    openStreams, written, fs, committed, log, uncaught >>

\* csv.read_csv raises: an empty input, a value that does not convert to
\* its column's type, a row with the wrong number of fields, a directory
ReadCsvFail ==
    /\ pc = "opened"
    /\ started' = started \cup {cur}
    /\ ConvertError("read")
    /\ UNCHANGED << archive, mode, batch_size, todo, csv_file, openStreams,
                    fs, committed >>

\* pq.write_table opens parquet_path for writing: the file is created, or
\* truncated when it exists
WriteOpen ==
    /\ pc = "write"
    /\ fs' = [fs EXCEPT ![PathOf(cur)] =
                 [owner |-> cur, src |-> lines, groups |-> << >>,
                  complete |-> FALSE]]
    /\ pc' = "writing"
    /\ UNCHANGED << archive, mode, batch_size, idx, todo, cur, csv_file,
                    openStreams, table, written, committed, lines,
                    started, log, uncaught >>

\* pq.write_table writes the next row group of at most row_group_size =
\* batch_size rows (one empty row group for a table without rows)
WriteGroup ==
    /\ pc = "writing"
    /\ \/ written < table
       \/ table = 0 /\ fs[PathOf(cur)].groups = << >>
    /\ LET g == GroupSize(table - written, batch_size)
       IN  /\ fs' = [fs EXCEPT ![PathOf(cur)].groups = Append(@, g)]
           /\ written' = written + g
    /\ UNCHANGED << archive, mode, batch_size, pc, idx, todo, cur, csv_file,
                    openStreams, table, committed, lines, started, log,
                    uncaught >>

\* pq.write_table writes the footer and closes the file; the function
\* prints the saved file and returns
WriteClose ==
    /\ pc = "writing"
    /\ written >= table
    /\ fs[PathOf(cur)].groups # << >>
    /\ fs' = [fs EXCEPT ![PathOf(cur)].complete = TRUE]
    /\ committed' = [committed EXCEPT ![PathOf(cur)] = fs'[PathOf(cur)]]
    /\ log' = Append(log, [member |-> cur, status |-> "success"])
    /\ NextMember
    /\ UNCHANGED << archive, mode, batch_size, todo, csv_file, openStreams,
                    started, uncaught >>

\* pq.write_table raises (disk full, permission denied) before or while
\* writing: its own handler removes whatever is at the path it was given
\* and raises again
WriteFail ==
    /\ pc \in {"write", "writing"}
    /\ fs' = [fs EXCEPT ![PathOf(cur)] = NoFile]
    /\ ConvertError("write")
    /\ UNCHANGED << archive, mode, batch_size, todo, csv_file, openStreams,
                    committed, started >>

\* --------------------------------------------------------- environment

\* The program never closes a member's stream: a stream is closed only when
\* the runtime collects it, at some point after the last reference is gone.
\* A collection closes every stream nothing refers to.
Collect ==
    /\ openStreams \ {csv_file} # {}
    /\ openStreams' = openStreams \cap {csv_file}
    /\ UNCHANGED << archive, mode, batch_size, pc, idx, todo, cur, csv_file,
                    table, written, fs, committed, lines, started, log,
                    uncaught >>

Next ==
    \/ OpenArchive
    \/ ExtractAll
    \/ ArchiveFail
    \/ SkipMember
    \/ OpenMember
    \/ OpenMemberFail
    \/ Return
    \/ NextFile
    \/ Cleanup
    \/ ReadCsv
    \/ ReadCsvFail
    \/ WriteOpen
    \/ WriteGroup
    \/ WriteClose
    \/ WriteFail
    \/ Collect

Spec == Init /\ [][Next]_vars

\* ------------------------------------------------- the claims' vocabulary

\* member i is a regular file whose name ends in ".csv"
ShouldConvert(i) ==
    /\ archive[i].kind = "file"
    /\ Len(archive[i].name) >= 4
    /\ SubSeq(archive[i].name, Len(archive[i].name) - 3, Len(archive[i].name))
         = <<".", "c", "s", "v">>

\* the output name <stem>.parquet of each name of the pool, written out
ExpectedOut(name) ==
    CASE name = N_a_csv   -> <<"a", ".parquet">>
      [] name = N_d_a_csv -> <<"a", ".parquet">>
      [] name = N_b_csv   -> <<"b", ".parquet">>
      [] name = N_a_CSV   -> <<"a", ".parquet">>
      [] name = N_r_txt   -> <<"r", ".parquet">>
      [] name = N_x_csv   -> <<"x", ".parquet">>

OutOf(i) == ExpectedOut(archive[i].name)

Succeeded(i) == \E k \in DOMAIN log : log[k] = [member |-> i, status |-> "success"]

Failed(i) == \E k \in DOMAIN log : log[k] = [member |-> i, status |-> "failure"]

RECURSIVE SumSeq(_)
SumSeq(s) == IF s = << >> THEN 0 ELSE s[1] + SumSeq(Tail(s))

\* the file a successful conversion of member i leaves: all the data rows
\* read from it, in row groups, with the footer written
HoldsDataOf(f, i) ==
    /\ f.owner = i
    /\ f.complete
    /\ SumSeq(f.groups) = f.src - 1

\* ------------------------------------------------------------- claims

\* C1: in streaming mode an error raised while converting a member (reading
\* or writing) never leaves tar_csv_to_parquet; the loop moves past the
\* failed member, and every eligible member the loop has passed has exactly
\* one outcome, a success unless its own conversion failed.
C1_ConvertFailureIsolated ==
    mode = "stream" =>
        /\ uncaught \notin {"read", "write"}
        /\ \A i \in Members :
             /\ Failed(i) => i < idx
             /\ (i < idx /\ ShouldConvert(i)) =>
                    /\ Succeeded(i) \/ Failed(i)
                    /\ ~(Succeeded(i) /\ Failed(i))
        /\ pc = "done" => idx = Len(archive) + 1

\* C1 witness: member #2 of 3 failed, #1 and #3 succeeded, the run completed.
C1_Witness ==
    /\ mode = "stream" /\ pc = "done" /\ Len(archive) = 3
    /\ Succeeded(1) /\ Failed(2) /\ Succeeded(3)

\* C2: a failure to open a member's stream (tar.extractfile raising) is
\* fatal to that member only: it never ends the run.
C2_OpenFailureIsolated == ~(pc = "aborted" /\ uncaught = "open")

\* C3: in extract-to-temp mode an error raised by convert_csv_to_parquet for
\* one extracted file never ends the run: the remaining files are converted.
C3_ExtractModeFailureIsolated ==
    mode = "temp" => ~(pc = "aborted" /\ uncaught \in {"read", "write"})

\* C4: in every reachable state, a file that exists in the output directory
\* under a member's output name was written to completion.
C4_NoPartialFileUnderFinalName ==
    \A p \in Paths : fs[p] # NoFile => fs[p].complete

\* C5: when the conversion of a member has just failed, every output file
\* committed before for another member is still there with the contents
\* written for that member.
C5_FailureKeepsCommittedFiles ==
    ( /\ pc \in {"loop", "scan", "done"}
      /\ log # << >>
      /\ log[Len(log)].status = "failure" ) =>
        \A p \in Paths :
            ( /\ committed[p] # NoFile
              /\ committed[p].owner # log[Len(log)].member ) =>
                fs[p] = committed[p]

C8_OutcomesInArchiveOrder ==
    \A j, k \in DOMAIN log : j < k => log[j].member < log[k].member

\* C9: at most one member stream is open at any time, and none is open
\* between two members or when the run has ended.
C9_StreamReleased ==
    /\ Cardinality(openStreams) <= 1
    /\ pc \in {"loop", "done", "aborted"} => openStreams = {}

\* C10: the row counts of the row groups of a committed output file add up
\* to the data rows read from its member (its text lines less the header).
C10_RowCountConservation ==
    \A p \in Paths :
        /\ fs[p].complete => SumSeq(fs[p].groups) = fs[p].src - 1
        /\ committed[p].complete =>
               SumSeq(committed[p].groups) = committed[p].src - 1

\* C10 witness: a committed file of several row groups, the last one
\* smaller than row_group_size.
C10_Witness ==
    \E p \in Paths :
        /\ fs[p].complete
        /\ Len(fs[p].groups) >= 2
        /\ fs[p].groups[Len(fs[p].groups)] < batch_size
        /\ fs[p].groups[Len(fs[p].groups)] > 0

====
